---- MODULE Spec2Model ----
(***************************************************************************)
(* safe_queue<T>: a fixed-capacity circular buffer guarded by one mutex    *)
(* (mutex_sync) and two condition variables (is_full gates producers,      *)
(* is_empty gates consumers).  Modelled from src/enqueue.cpp; the copies   *)
(* in src/queue.cpp and src/queue.h run side by side on the same calls.    *)
(*                                                                         *)
(* Granularity: one step per mutex hand-over.  A call is                   *)
(*   idle --Call--> lock --Acquire--> held --body--> idle | parked         *)
(*   parked --notify_one | SpuriousWake | Timeout--> lock                  *)
(* The body of an operation (predicate test, buffer update, notify_one,    *)
(* unlock at scope exit) runs while the mutex is held and is one step.     *)
(***************************************************************************)
EXTENDS Integers, Sequences, FiniteSets, TLC

\* ---- bounds of the model --------------------------------------------------
MaxCap == 2          \* capacities 0..MaxCap are explored
MaxPush == 3         \* pushes started over a run (successful + in flight)

ItemsPerThread == 2  \* pushes per producer, pops per consumer (harness of C7)

AllThreads == {"t1", "t2", "t3", "t4"}
Threads == {"t1", "t2", "t3"}     \* callers of Spec: each may call any operation
Pair == {"t1", "t2"}              \* callers of SpecPair
Producers == {"t1", "t2"}         \* callers of SpecPC
Consumers == {"t3", "t4"}
Items == {1, 2}         \* values of T the callers push
StressProducer == "t1"             \* the two threads of FullEmptyStressTest
StressConsumer == "t2"
NoThread == "none"
NoVal == -1          \* content of a slot never written / an unset variable

PushOps == {"push", "push_for"}
PopOps == {"pop", "pop_for"}
TimedOps == {"push_for", "pop_for"}
QueryOps == {"size", "empty", "full"}
Ops == PushOps \cup PopOps \cup QueryOps

VARIABLES
    maximum_capacity,   \* size_t maximum_capacity
    queue_data,         \* T* queue_data : slot index -> content
    current_size,       \* size_t current_size
    first,              \* size_t first  (read cursor)
    last,               \* size_t last   (write cursor)
    mutex_sync,         \* owner of the mutex, or NoThread
    is_full,            \* threads parked on condition variable is_full
    is_empty,           \* threads parked on condition variable is_empty
    pc,                 \* per thread: "idle", "lock", "held", "parked"
    op,                 \* per thread: operation in progress, or "none"
    arg,                \* per thread: the item of a push in progress
    tmo,                \* per thread: wait_until reported cv_status::timeout
    zero,               \* per thread: the call in progress was given a timeout <= 0
    out,                \* per thread: the caller's variable passed to pop(T&, timeout)
    quota,              \* per thread: calls left in the producer/consumer harness
    done,               \* std::atomic<bool> done of FullEmptyStressTest
    queue_cpp,          \* the safe_queue of queue.cpp, given the same calls
    queue_h,            \* the ThreadSafeQueue of queue.h, given the same calls
    pushed,             \* history: items in order of completed enqueues
    popped,             \* history: items in order of completed dequeues
    life,               \* history: per slot "raw" (never written), "live"
                        \* (written, not yet popped) or "dead" (popped)
    ev                  \* the return (or throw) produced by the last step, if any

qvars == <<maximum_capacity, queue_data, current_size, first, last>>
hist == <<pushed, popped, life>>
twins == <<queue_cpp, queue_h>>
vars == <<maximum_capacity, queue_data, current_size, first, last, mutex_sync,
          is_full, is_empty, pc, op, arg, tmo, zero, out, quota, done,
          queue_cpp, queue_h, pushed, popped, life, ev>>

\* what() of the std::runtime_error thrown on a timeout
PushTimeout == "Push timeout - queue is full"
PopTimeout == "Pop timeout - queue is empty"

NoEv == [t |-> NoThread, op |-> "none", res |-> "none", val |-> NoVal]
Ret(t, r, v) == [t |-> t, op |-> op[t], res |-> r, val |-> v]

\* ---- the two other copies of the queue --------------------------------------
\* What one member function call does to a copy, given the copy's state q:
\* the state it leaves, what it returns or throws (res, val; res "none" if it
\* blocks), the condition variable it blocks on (wait) and the one it
\* notifies (notify).
Outcome(q, r, v, w, n) == [q |-> q, res |-> r, val |-> v, wait |-> w, notify |-> n]

\* queue.cpp: safe_queue(size_t max_maximum_capacity)
cpp_Construct(c) ==
    [queue_size |-> [i \in 0..(c - 1) |-> NoVal], maximum_capacity |-> c,
     enqueue_element |-> 0, first |-> 0, last |-> 0]

\* queue.cpp: size() const, empty() const, full() const construct a
\* std::lock_guard<std::mutex> on mutex_sync, which is not declared mutable:
\* in a const member function the mutex is const and the constructor
\* lock_guard(mutex_type&) cannot bind it, so a call does not compile
cpp_size(q) == Outcome(q, "ill-formed", NoVal, "none", "none")
cpp_empty(q) == Outcome(q, "ill-formed", NoVal, "none", "none")
cpp_full(q) == Outcome(q, "ill-formed", NoVal, "none", "none")

\* queue.cpp: queue_size[last] = item; last = (last + 1) % maximum_capacity;
\* ++enqueue_element; is_empty.notify_one();
cpp_store(q, item, r) ==
    IF q.maximum_capacity = 0 THEN Outcome(q, "fault", NoVal, "none", "none")
    ELSE Outcome([q EXCEPT !.queue_size[q.last] = item,
                           !.last = (q.last + 1) % q.maximum_capacity,
                           !.enqueue_element = @ + 1],
                 r, NoVal, "none", "is_empty")

\* queue.cpp: item = queue_size[first]; first = (first + 1) % maximum_capacity;
\* --enqueue_element; is_full.notify_one();
cpp_take(q, r) ==
    IF q.maximum_capacity = 0 THEN Outcome(q, "fault", NoVal, "none", "none")
    ELSE Outcome([q EXCEPT !.first = (q.first + 1) % q.maximum_capacity,
                           !.enqueue_element = @ - 1],
                 r, q.queue_size[q.first], "none", "is_full")

\* queue.cpp: void push(const T& item)
cpp_push(q, item) ==
    IF q.enqueue_element < q.maximum_capacity THEN cpp_store(q, item, "void")
    ELSE Outcome(q, "none", NoVal, "is_full", "none")

\* queue.cpp: bool push(const T& item, timeout); timedout: wait_until has
\* reported cv_status::timeout
cpp_push_for(q, item, timedout) ==
    IF q.enqueue_element < q.maximum_capacity THEN cpp_store(q, item, "true")
    ELSE IF timedout
    THEN Outcome(q, "Push timeout - queue is full", NoVal, "none", "none")
    ELSE Outcome(q, "none", NoVal, "is_full", "none")

\* queue.cpp: T pop()
cpp_pop(q) ==
    IF q.enqueue_element > 0 THEN cpp_take(q, "value")
    ELSE Outcome(q, "none", NoVal, "is_empty", "none")

\* queue.cpp: bool pop(T& item, timeout)
cpp_pop_for(q, timedout) ==
    IF q.enqueue_element > 0 THEN cpp_take(q, "true")
    ELSE IF timedout
    THEN Outcome(q, "Pop timeout - queue is empty", NoVal, "none", "none")
    ELSE Outcome(q, "none", NoVal, "is_empty", "none")

\* a call of operation o on the queue.cpp copy
cpp_call(q, o, item, timedout) ==
    CASE o = "push" -> cpp_push(q, item)
      [] o = "push_for" -> cpp_push_for(q, item, timedout)
      [] o = "pop" -> cpp_pop(q)
      [] o = "pop_for" -> cpp_pop_for(q, timedout)
      [] o = "size" -> cpp_size(q)
      [] o = "empty" -> cpp_empty(q)
      [] o = "full" -> cpp_full(q)
      [] OTHER -> Outcome(q, "none", NoVal, "none", "none")

\* queue.h: ThreadSafeQueue(size_t max_capacity); count, front, rear have
\* default member initialisers 0; std::make_unique<T[]>(n) value-initialises
\* the array, so every slot of an int queue starts as 0
h_Construct(c) ==
    [buffer |-> [i \in 0..(c - 1) |-> 0], capacity |-> c,
     count |-> 0, front |-> 0, rear |-> 0]

\* queue.h: size() const, empty() const, full() const (mtx is mutable)
h_size(q) == Outcome(q, "value", q.count, "none", "none")
h_empty(q) == Outcome(q, IF q.count = 0 THEN "true" ELSE "false", NoVal, "none", "none")
h_full(q) == Outcome(q, IF q.count = q.capacity THEN "true" ELSE "false", NoVal, "none", "none")

\* queue.h: buffer[rear] = item; rear = (rear + 1) % capacity; ++count;
\* not_empty.notify_one();
h_store(q, item, r) ==
    IF q.capacity = 0 THEN Outcome(q, "fault", NoVal, "none", "none")
    ELSE Outcome([q EXCEPT !.buffer[q.rear] = item,
                           !.rear = (q.rear + 1) % q.capacity,
                           !.count = @ + 1],
                 r, NoVal, "none", "not_empty")

\* queue.h: item = buffer[front]; front = (front + 1) % capacity; --count;
\* not_full.notify_one();
h_take(q, r) ==
    IF q.capacity = 0 THEN Outcome(q, "fault", NoVal, "none", "none")
    ELSE Outcome([q EXCEPT !.front = (q.front + 1) % q.capacity,
                           !.count = @ - 1],
                 r, q.buffer[q.front], "none", "not_full")

\* queue.h: void push(const T& item)
h_push(q, item) ==
    IF q.count < q.capacity THEN h_store(q, item, "void")
    ELSE Outcome(q, "none", NoVal, "not_full", "none")

\* queue.h: bool push(const T& item, timeout)
h_push_for(q, item, timedout) ==
    IF q.count < q.capacity THEN h_store(q, item, "true")
    ELSE IF timedout
    THEN Outcome(q, "Push timeout - queue is full", NoVal, "none", "none")
    ELSE Outcome(q, "none", NoVal, "not_full", "none")

\* queue.h: T pop()
h_pop(q) ==
    IF q.count > 0 THEN h_take(q, "value")
    ELSE Outcome(q, "none", NoVal, "not_empty", "none")

\* queue.h: bool pop(T& item, timeout)
h_pop_for(q, timedout) ==
    IF q.count > 0 THEN h_take(q, "true")
    ELSE IF timedout
    THEN Outcome(q, "Pop timeout - queue is empty", NoVal, "none", "none")
    ELSE Outcome(q, "none", NoVal, "not_empty", "none")

\* a call of operation o on the queue.h copy
h_call(q, o, item, timedout) ==
    CASE o = "push" -> h_push(q, item)
      [] o = "push_for" -> h_push_for(q, item, timedout)
      [] o = "pop" -> h_pop(q)
      [] o = "pop_for" -> h_pop_for(q, timedout)
      [] o = "size" -> h_size(q)
      [] o = "empty" -> h_empty(q)
      [] o = "full" -> h_full(q)
      [] OTHER -> Outcome(q, "none", NoVal, "none", "none")

\* the two copies take the step thread t takes in the body of its operation
SideBySide(t) ==
    /\ queue_cpp' = cpp_call(queue_cpp, op[t], arg[t], tmo[t]).q
    /\ queue_h' = h_call(queue_h, op[t], arg[t], tmo[t]).q

\* ---- construction ---------------------------------------------------------
\* safe_queue(size_t max_capacity): current_size(0), first(0), last(0),
\* queue_data = new T[maximum_capacity]
Construct(c) ==
    /\ maximum_capacity = c
    /\ queue_data = [i \in 0..(c - 1) |-> NoVal]
    /\ life = [i \in 0..(c - 1) |-> "raw"]
    /\ current_size = 0
    /\ first = 0
    /\ last = 0
    /\ mutex_sync = NoThread
    /\ is_full = {}
    /\ is_empty = {}
    /\ queue_cpp = cpp_Construct(c)
    /\ queue_h = h_Construct(c)

\* no thread is inside a call
Idle ==
    /\ pc = [t \in AllThreads |-> "idle"]
    /\ op = [t \in AllThreads |-> "none"]
    /\ arg = [t \in AllThreads |-> NoVal]
    /\ tmo = [t \in AllThreads |-> FALSE]
    /\ zero = [t \in AllThreads |-> FALSE]
    /\ out = [t \in AllThreads |-> NoVal]
    /\ pushed = <<>>
    /\ popped = <<>>
    /\ ev = NoEv

Init ==
    /\ \E c \in 0..MaxCap : Construct(c)
    /\ Idle
    /\ quota = [t \in AllThreads |-> 0]
    /\ done = FALSE

\* ---- pure helpers -----------------------------------------------------------
\* mutant: the producers' predicate admits a push into a full buffer
NotFullOffByOne == current_size <= maximum_capacity

\* mutant: the consumers' predicate admits a pop from an empty buffer
NotEmptyOffByOne == current_size >= 0

\* the predicates handed to wait / wait_for
NotFull == current_size < maximum_capacity
NotEmpty == current_size > 0

\* mutant: the cursor is advanced without wrapping
NextIndexNoWrap(i) == i + 1

\* mutant: the cursor is not advanced
NextIndexStuck(i) == i

\* (index + 1) % maximum_capacity
NextIndex(i) == (i + 1) % maximum_capacity

\* mutant: size() is taken from the write cursor
SizeFromCursor == last

\* mutant: empty() compares the cursors, which also coincide on a full buffer
EmptyByCursors == first = last

\* what size(), empty(), full() compute under the lock
size_value == current_size
empty_value == current_size = 0
full_value == current_size = maximum_capacity

BoolRes(b) == IF b THEN "true" ELSE "false"

\* pushes that have been started and not failed
PushesStarted == Len(pushed) + Cardinality({t \in AllThreads : op[t] \in PushOps})

\* ---- calling and locking ----------------------------------------------------
\* a thread enters one of the member functions and reaches its lock statement;
\* the variable it passes to pop(T&, timeout) is a fresh "int val;"
Call(t) ==
    /\ pc[t] = "idle"
    /\ \E o \in Ops :
        /\ o \in PushOps => PushesStarted < MaxPush
        /\ op' = [op EXCEPT ![t] = o]
        /\ \E x \in (IF o \in PushOps THEN Items ELSE {NoVal}) : arg' = [arg EXCEPT ![t] = x]
    /\ pc' = [pc EXCEPT ![t] = "lock"]
    /\ out' = [out EXCEPT ![t] = NoVal]
    /\ ev' = NoEv
    /\ UNCHANGED <<qvars, mutex_sync, is_full, is_empty, tmo, zero, quota, done, hist, twins>>

\* a thread calls push(item, timeout) or pop(item, timeout) with a timeout
\* that is zero or negative: the deadline now + timeout has passed at once
CallZero(t) ==
    /\ pc[t] = "idle"
    /\ \E o \in TimedOps :
        /\ o \in PushOps => PushesStarted < MaxPush
        /\ op' = [op EXCEPT ![t] = o]
        /\ \E x \in (IF o \in PushOps THEN Items ELSE {NoVal}) : arg' = [arg EXCEPT ![t] = x]
    /\ zero' = [zero EXCEPT ![t] = TRUE]
    /\ pc' = [pc EXCEPT ![t] = "lock"]
    /\ out' = [out EXCEPT ![t] = NoVal]
    /\ ev' = NoEv
    /\ UNCHANGED <<qvars, mutex_sync, is_full, is_empty, tmo, quota, done, hist, twins>>

\* mutant: the lock statement does not wait for the mutex to be free
AcquireNoExclusion(t) ==
    /\ pc[t] = "lock"
    /\ mutex_sync' = t
    /\ pc' = [pc EXCEPT ![t] = "held"]
    /\ ev' = NoEv
    /\ UNCHANGED <<qvars, is_full, is_empty, op, arg, tmo, zero, out, quota, done, hist, twins>>

\* std::unique_lock / std::lock_guard constructor, and the re-lock inside wait
Acquire(t) ==
    /\ pc[t] = "lock"
    /\ mutex_sync = NoThread
    /\ mutex_sync' = t
    /\ pc' = [pc EXCEPT ![t] = "held"]
    /\ ev' = NoEv
    /\ UNCHANGED <<qvars, is_full, is_empty, op, arg, tmo, zero, out, quota, done, hist, twins>>

\* harness of the producer/consumer tests: a producer's j-th call is
\* q->push(j), j = 0 .. ItemsPerThread-1; a consumer calls q->pop()
CallPC(t) ==
    /\ pc[t] = "idle"
    /\ quota[t] > 0
    /\ quota' = [quota EXCEPT ![t] = quota[t] - 1]
    /\ op' = [op EXCEPT ![t] = IF t \in Producers THEN "push" ELSE "pop"]
    /\ arg' = [arg EXCEPT ![t] = IF t \in Producers
                                 THEN ItemsPerThread - quota[t] ELSE NoVal]
    /\ pc' = [pc EXCEPT ![t] = "lock"]
    /\ ev' = NoEv
    /\ UNCHANGED <<qvars, mutex_sync, is_full, is_empty, tmo, zero, out, done, hist, twins>>

\* harness of FullEmptyStressTest, producer thread:
\* for (i = 0; i < num_operations; ++i) q->push(i);
StressPush(t) ==
    /\ t = StressProducer
    /\ pc[t] = "idle"
    /\ quota[t] > 0
    /\ quota' = [quota EXCEPT ![t] = quota[t] - 1]
    /\ op' = [op EXCEPT ![t] = "push"]
    /\ arg' = [arg EXCEPT ![t] = MaxPush - quota[t]]
    /\ pc' = [pc EXCEPT ![t] = "lock"]
    /\ ev' = NoEv
    /\ UNCHANGED <<qvars, mutex_sync, is_full, is_empty, tmo, zero, out, done, hist, twins>>

\* producer thread, after the loop: done = true
SetDone(t) ==
    /\ t = StressProducer
    /\ pc[t] = "idle"
    /\ quota[t] = 0
    /\ ~done
    /\ done' = TRUE
    /\ ev' = NoEv
    /\ UNCHANGED <<qvars, mutex_sync, is_full, is_empty, pc, op, arg, tmo, zero,
                   out, quota, hist, twins>>

\* thread t enters operation o from the consumer loop with a fresh "int val;"
StressEnter(t, o) ==
    /\ op' = [op EXCEPT ![t] = o]
    /\ pc' = [pc EXCEPT ![t] = "lock"]
    /\ out' = [out EXCEPT ![t] = NoVal]
    /\ UNCHANGED quota

\* consumer thread: while (!done || !q->empty()) { pop(val, 10ms), a timeout
\* error is caught and ignored }.  quota is 1 while the thread is in the loop.
\* !done is read first; only if done is set is q->empty() called, and its
\* result is the last return (the producer takes no step once done is set).
StressLoop(t) ==
    /\ t = StressConsumer
    /\ pc[t] = "idle"
    /\ quota[t] > 0
    /\ IF ~done
       THEN StressEnter(t, "pop_for")
       ELSE IF ev.t = t /\ ev.op = "empty"
       THEN IF ev.res = "true"
            THEN /\ quota' = [quota EXCEPT ![t] = 0]
                 /\ UNCHANGED <<op, pc, out>>
            ELSE StressEnter(t, "pop_for")
       ELSE StressEnter(t, "empty")
    /\ ev' = NoEv
    /\ UNCHANGED <<qvars, mutex_sync, is_full, is_empty, arg, tmo, zero, done, hist, twins>>

\* ---- condition variables ----------------------------------------------------
\* mutant: the notification is lost
WakeNobody(cv) == {NoThread}

\* candidates of notify_one on a wait set: one parked thread, or nobody
Wake(cv) == IF cv = {} THEN {NoThread} ELSE cv

\* a notified waiter whose deadline has passed reports cv_status::timeout:
\* never for wait, possibly for wait_for, always for a timeout <= 0
Expiry(w) ==
    IF w = NoThread \/ op[w] \notin TimedOps THEN {FALSE}
    ELSE IF zero[w] THEN {TRUE} ELSE BOOLEAN

\* thread t leaves its call (scope exit unlocks the mutex) after notify_one
\* has moved waiter w, if any, from the wait set to the mutex
Leave(t, w, x) ==
    /\ pc' = [u \in AllThreads |-> IF u = t THEN "idle"
                                 ELSE IF u = w THEN "lock" ELSE pc[u]]
    /\ tmo' = [u \in AllThreads |-> IF u = t THEN FALSE
                                  ELSE IF u = w THEN x ELSE tmo[u]]
    /\ op' = [op EXCEPT ![t] = "none"]
    /\ arg' = [arg EXCEPT ![t] = NoVal]
    /\ zero' = [zero EXCEPT ![t] = FALSE]
    /\ mutex_sync' = NoThread

\* cv.wait(lock): atomically release the mutex and park
Park(t) ==
    /\ pc' = [pc EXCEPT ![t] = "parked"]
    /\ mutex_sync' = NoThread
    /\ ev' = NoEv
    /\ UNCHANGED <<qvars, op, arg, tmo, zero, out, quota, done, hist>>

\* mutant: pop reads the newest element instead of the oldest
SlotNewest(i) ==
    IF maximum_capacity = 0 THEN NoVal
    ELSE queue_data[(last + maximum_capacity - 1) % maximum_capacity]

\* mutant: pop reads slot 0 whatever the read cursor is
SlotZero(i) == IF maximum_capacity = 0 THEN NoVal ELSE queue_data[0]

\* the content of slot i (a cursor outside the array reads no element)
Slot(i) == IF i \in DOMAIN queue_data THEN queue_data[i] ELSE NoVal

\* (index + 1) % 0 is an integer division by zero: the call does not return
Fault(t) ==
    /\ ev' = Ret(t, "fault", NoVal)
    /\ Leave(t, NoThread, FALSE)
    /\ UNCHANGED <<qvars, is_full, is_empty, out, quota, done, hist>>

\* queue_data[last] = item; last = (last + 1) % maximum_capacity;
\* ++current_size; is_empty.notify_one(); [return r]
Enqueue(t, r) ==
    IF maximum_capacity = 0 THEN Fault(t) ELSE
    /\ queue_data' = [queue_data EXCEPT ![last] = arg[t]]
    /\ last' = NextIndex(last)
    /\ current_size' = current_size + 1
    /\ pushed' = Append(pushed, arg[t])
    /\ life' = [life EXCEPT ![last] = "live"]
    /\ \E w \in Wake(is_empty) : \E x \in Expiry(w) :
        /\ is_empty' = is_empty \ {w}
        /\ Leave(t, w, x)
    /\ ev' = Ret(t, r, NoVal)
    /\ UNCHANGED <<maximum_capacity, first, is_full, popped, out, quota, done>>

\* item = queue_data[first]; first = (first + 1) % maximum_capacity;
\* --current_size; is_full.notify_one(); return item
\* (byRef: the item is assigned to the caller's variable, true is returned)
Dequeue(t, byRef) ==
    IF maximum_capacity = 0 THEN Fault(t) ELSE
    /\ first' = NextIndex(first)
    /\ current_size' = current_size - 1
    /\ popped' = Append(popped, Slot(first))
    /\ life' = [life EXCEPT ![first] = "dead"]
    /\ \E w \in Wake(is_full) : \E x \in Expiry(w) :
        /\ is_full' = is_full \ {w}
        /\ Leave(t, w, x)
    /\ IF byRef
       THEN /\ out' = [out EXCEPT ![t] = Slot(first)]
            /\ ev' = Ret(t, "true", NoVal)
       ELSE /\ out' = out
            /\ ev' = Ret(t, "value", Slot(first))
    /\ UNCHANGED <<maximum_capacity, queue_data, last, is_empty, pushed, quota, done>>

\* mutant: the operation touches the buffer and the caller's variable before
\* it waits, so a timed-out call has already written
ThrowAfterStore(t, msg) ==
    /\ ev' = Ret(t, msg, NoVal)
    /\ Leave(t, NoThread, FALSE)
    /\ queue_data' = IF op[t] = "push_for" /\ last \in DOMAIN queue_data
                      THEN [queue_data EXCEPT ![last] = arg[t]] ELSE queue_data
    /\ out' = IF op[t] = "pop_for" THEN [out EXCEPT ![t] = 1] ELSE out
    /\ UNCHANGED <<maximum_capacity, current_size, first, last,
                   is_full, is_empty, quota, done, hist>>

\* mutant: a timeout is reported by returning false
ThrowReturnsFalse(t, msg) ==
    /\ ev' = Ret(t, "false", NoVal)
    /\ Leave(t, NoThread, FALSE)
    /\ UNCHANGED <<qvars, is_full, is_empty, out, quota, done, hist>>

\* throw std::runtime_error(msg): unwinding destroys the unique_lock, which
\* unlocks the mutex
Throw(t, msg) ==
    /\ ev' = Ret(t, msg, NoVal)
    /\ Leave(t, NoThread, FALSE)
    /\ UNCHANGED <<qvars, is_full, is_empty, out, quota, done, hist>>

\* ---- the operations -----------------------------------------------------------
\* mutant: push rejects a queue of capacity 0 with an error instead of waiting
PushRejectsZeroCapacity(t) ==
    /\ pc[t] = "held" /\ op[t] = "push"
    /\ SideBySide(t)
    /\ IF NotFull
       THEN Enqueue(t, "void")
       ELSE IF maximum_capacity = 0
       THEN Throw(t, PushTimeout)
       ELSE /\ is_full' = is_full \cup {t}
            /\ Park(t)
            /\ UNCHANGED is_empty

\* void push(const T& item)
push(t) ==
    /\ pc[t] = "held" /\ op[t] = "push"
    /\ SideBySide(t)
    /\ IF NotFull
       THEN Enqueue(t, "void")
       ELSE /\ is_full' = is_full \cup {t}
            /\ Park(t)
            /\ UNCHANGED is_empty

\* mutant: a timed push whose wait reported a timeout throws without
\* evaluating the predicate again
PushForNoRecheck(t) ==
    /\ pc[t] = "held" /\ op[t] = "push_for"
    /\ SideBySide(t)
    /\ IF tmo[t]
       THEN Throw(t, PushTimeout)
       ELSE IF NotFull
       THEN Enqueue(t, "true")
       ELSE /\ is_full' = is_full \cup {t}
            /\ Park(t)
            /\ UNCHANGED is_empty

\* mutant: a timed push that finds the queue still full after a timeout waits
\* again instead of throwing
PushForRetries(t) ==
    /\ pc[t] = "held" /\ op[t] = "push_for"
    /\ SideBySide(t)
    /\ IF NotFull
       THEN Enqueue(t, "true")
       ELSE /\ is_full' = is_full \cup {t}
            /\ Park(t)
            /\ UNCHANGED is_empty

\* bool push(const T& item, const std::chrono::milliseconds& timeout)
push_for(t) ==
    /\ pc[t] = "held" /\ op[t] = "push_for"
    /\ SideBySide(t)
    /\ IF NotFull
       THEN Enqueue(t, "true")
       ELSE IF tmo[t]
       THEN Throw(t, PushTimeout)
       ELSE /\ is_full' = is_full \cup {t}
            /\ Park(t)
            /\ UNCHANGED is_empty

\* T pop()
pop(t) ==
    /\ pc[t] = "held" /\ op[t] = "pop"
    /\ SideBySide(t)
    /\ IF NotEmpty
       THEN Dequeue(t, FALSE)
       ELSE /\ is_empty' = is_empty \cup {t}
            /\ Park(t)
            /\ UNCHANGED is_full

\* mutant: a waiter that reports a timeout throws without evaluating the
\* predicate again
PopForNoRecheck(t) ==
    /\ pc[t] = "held" /\ op[t] = "pop_for"
    /\ SideBySide(t)
    /\ IF tmo[t]
       THEN Throw(t, PopTimeout)
       ELSE IF NotEmpty
       THEN Dequeue(t, TRUE)
       ELSE /\ is_empty' = is_empty \cup {t}
            /\ Park(t)
            /\ UNCHANGED is_full

\* bool pop(T& item, const std::chrono::milliseconds& timeout)
pop_for(t) ==
    /\ pc[t] = "held" /\ op[t] = "pop_for"
    /\ SideBySide(t)
    /\ IF NotEmpty
       THEN Dequeue(t, TRUE)
       ELSE IF tmo[t]
       THEN Throw(t, PopTimeout)
       ELSE /\ is_empty' = is_empty \cup {t}
            /\ Park(t)
            /\ UNCHANGED is_full

\* size_t size() const
size(t) ==
    /\ pc[t] = "held" /\ op[t] = "size"
    /\ SideBySide(t)
    /\ ev' = Ret(t, "value", size_value)
    /\ Leave(t, NoThread, FALSE)
    /\ UNCHANGED <<qvars, is_full, is_empty, out, quota, done, hist>>

\* bool empty() const
empty(t) ==
    /\ pc[t] = "held" /\ op[t] = "empty"
    /\ SideBySide(t)
    /\ ev' = Ret(t, BoolRes(empty_value), NoVal)
    /\ Leave(t, NoThread, FALSE)
    /\ UNCHANGED <<qvars, is_full, is_empty, out, quota, done, hist>>

\* bool full() const
full(t) ==
    /\ pc[t] = "held" /\ op[t] = "full"
    /\ SideBySide(t)
    /\ ev' = Ret(t, BoolRes(full_value), NoVal)
    /\ Leave(t, NoThread, FALSE)
    /\ UNCHANGED <<qvars, is_full, is_empty, out, quota, done, hist>>

\* ---- wake-ups that are not notifications --------------------------------------
\* mutant: the deadline is ignored, wait_for behaves as wait
TimeoutNeverFires(t) ==
    /\ pc[t] = "parked" /\ op[t] \in TimedOps
    /\ FALSE
    /\ UNCHANGED vars

\* the deadline of wait_for passes while the thread is parked
Timeout(t) ==
    /\ pc[t] = "parked" /\ op[t] \in TimedOps
    /\ pc' = [pc EXCEPT ![t] = "lock"]
    /\ tmo' = [tmo EXCEPT ![t] = TRUE]
    /\ is_full' = is_full \ {t}
    /\ is_empty' = is_empty \ {t}
    /\ ev' = NoEv
    /\ UNCHANGED <<qvars, mutex_sync, op, arg, zero, out, quota, done, hist, twins>>

\* condition_variable::wait may return without a notification; wait_until
\* then reports a timeout exactly if the deadline has passed, which is certain
\* for a timeout <= 0 (a deadline that passes later is the step Timeout)
SpuriousWake(t) ==
    /\ pc[t] = "parked"
    /\ pc' = [pc EXCEPT ![t] = "lock"]
    /\ is_full' = is_full \ {t}
    /\ is_empty' = is_empty \ {t}
    /\ tmo' = [tmo EXCEPT ![t] = zero[t]]
    /\ ev' = NoEv
    /\ UNCHANGED <<qvars, mutex_sync, op, arg, zero, out, quota, done, hist, twins>>

\* ---- specifications ----------------------------------------------------------
\* Spec: three threads, each calling any operation at any time
Next ==
    \E t \in Threads :
        \/ Call(t)
        \/ Acquire(t)
        \/ push(t)
        \/ push_for(t)
        \/ pop(t)
        \/ pop_for(t)
        \/ size(t)
        \/ empty(t)
        \/ full(t)
        \/ Timeout(t)
        \/ SpuriousWake(t)

Spec == Init /\ [][Next]_vars

\* the body of whichever operation the mutex holder is in
RunBody ==
    \E t \in AllThreads :
        push(t) \/ push_for(t) \/ pop(t) \/ pop_for(t)
            \/ size(t) \/ empty(t) \/ full(t)

\* SpecPair: two threads, each calling any operation at any time, scheduled
\* fairly: the thread that holds the mutex runs its body; a thread that keeps
\* finding the mutex free gets it; the deadline of a wait_for passes.  Nothing
\* is assumed about new calls, nor about spurious wake-ups.
NextPair ==
    \E t \in Pair :
        \/ Call(t)
        \/ Acquire(t)
        \/ push(t)
        \/ push_for(t)
        \/ pop(t)
        \/ pop_for(t)
        \/ size(t)
        \/ empty(t)
        \/ full(t)
        \/ Timeout(t)
        \/ SpuriousWake(t)

FairPair ==
    /\ WF_vars(RunBody)
    /\ \A t \in Pair : SF_vars(Acquire(t)) /\ SF_vars(Timeout(t))

SpecPair == Init /\ [][NextPair]_vars /\ FairPair

\* SpecZero: two threads, each calling any operation at any time, the timed
\* ones with a positive timeout (Call) or with a timeout <= 0 (CallZero)
NextZero ==
    \E t \in Pair :
        \/ Call(t)
        \/ CallZero(t)
        \/ Acquire(t)
        \/ push(t)
        \/ push_for(t)
        \/ pop(t)
        \/ pop_for(t)
        \/ size(t)
        \/ empty(t)
        \/ full(t)
        \/ Timeout(t)
        \/ SpuriousWake(t)

SpecZero == Init /\ [][NextZero]_vars

\* SpecPC: the producer/consumer tests (ConcurrentPushPop,
\* MultipleProducersMultipleConsumers) on a queue of capacity >= 1: every
\* producer pushes ItemsPerThread items, every consumer pops ItemsPerThread
\* times; threads that can run do run.
InitPC ==
    /\ \E c \in 1..MaxCap : Construct(c)
    /\ Idle
    /\ quota = [t \in AllThreads |->
                   IF t \in Producers \cup Consumers THEN ItemsPerThread ELSE 0]
    /\ done = FALSE

NextPC ==
    \E t \in Producers \cup Consumers :
        \/ CallPC(t)
        \/ Acquire(t)
        \/ push(t)
        \/ pop(t)
        \/ SpuriousWake(t)

FairPC ==
    /\ WF_vars(RunBody)
    /\ \A t \in Producers \cup Consumers :
          WF_vars(CallPC(t)) /\ SF_vars(Acquire(t))

SpecPC == InitPC /\ [][NextPC]_vars /\ FairPC

\* SpecStress: FullEmptyStressTest.  The producer pushes 0 .. MaxPush-1 and
\* sets done; the consumer pops with a timeout until done is set and empty()
\* is true.  Threads that can run do run, a thread that keeps finding the
\* mutex free gets it, and the deadline of a wait_for passes.
InitStress ==
    /\ \E c \in 0..MaxCap : Construct(c)
    /\ Idle
    /\ quota = [t \in AllThreads |-> IF t = StressProducer THEN MaxPush
                                      ELSE IF t = StressConsumer THEN 1 ELSE 0]
    /\ done = FALSE

NextStress ==
    \E t \in Pair :
        \/ StressPush(t)
        \/ SetDone(t)
        \/ StressLoop(t)
        \/ Acquire(t)
        \/ push(t)
        \/ pop_for(t)
        \/ empty(t)
        \/ Timeout(t)
        \/ SpuriousWake(t)

FairStress ==
    /\ WF_vars(RunBody)
    /\ \A t \in Pair :
          /\ WF_vars(StressPush(t)) /\ WF_vars(SetDone(t)) /\ WF_vars(StressLoop(t))
          /\ SF_vars(Acquire(t)) /\ SF_vars(Timeout(t))

SpecStress == InitStress /\ [][NextStress]_vars /\ FairStress

\* ==== properties ============================================================
IsPrefix(s, q) == Len(s) <= Len(q) /\ \A i \in 1..Len(s) : s[i] = q[i]
Succeeded(e) == e.res \in {"void", "true", "value"}

\* C1: with pushes and pops ordered by the completion of their critical
\* sections, the n-th successful pop returns the item of the n-th successful
\* push, under every interleaving of unbounded and timed callers: the popped
\* items are a prefix of the pushed items, and the value a pop hands to its
\* caller is the one at its position in the push order.
C1_FifoOrder ==
    /\ IsPrefix(popped, pushed)
    /\ (ev.op = "pop" /\ ev.res = "value") => ev.val = pushed[Len(popped)]
    /\ (ev.op = "pop_for" /\ ev.res = "true") => out[ev.t] = pushed[Len(popped)]

\* three pops on a capacity-2 queue (the cursors have wrapped), the last one a
\* timed pop, returning different items
C1_Witness ==
    /\ maximum_capacity = 2 /\ Len(popped) = 3
    /\ popped[1] # popped[2]
    /\ ev.op = "pop_for" /\ ev.res = "true"

\* C2: 0 <= count <= capacity always; with capacity > 0 both cursors lie in
\* [0, capacity); a completed push leaves 1 <= count <= capacity (it did not
\* start from count = capacity) and a completed pop leaves count < capacity
\* (it did not start from count = 0).
C2_CountAndCursorsInRange ==
    /\ 0 <= current_size /\ current_size <= maximum_capacity
    /\ maximum_capacity > 0 =>
          /\ first \in 0..(maximum_capacity - 1)
          /\ last \in 0..(maximum_capacity - 1)
    /\ (ev.op \in PushOps /\ Succeeded(ev)) => current_size >= 1
    /\ (ev.op \in PopOps /\ Succeeded(ev)) => current_size <= maximum_capacity - 1

\* a timed producer that parked on a full capacity-1 queue holds the mutex
\* again after a pop and a later push by another producer refilled the queue
C2_Witness ==
    /\ maximum_capacity = 1 /\ current_size = 1
    /\ Len(pushed) = 2 /\ Len(popped) = 1
    /\ \E t \in Threads : pc[t] = "held" /\ op[t] = "push_for" /\ tmo[t]

\* thread t runs the body of operation o (it holds the mutex and gives it up)
Body(t, o) == pc[t] = "held" /\ op[t] = o /\ pc'[t] # "held"
Returns(t, o) == Body(t, o) /\ pc'[t] = "idle"

\* C3 as stated: count = (tail - head) mod capacity whenever capacity > 0.
C3_CountIsCursorDistance ==
    maximum_capacity > 0 =>
        current_size = (last - first) % maximum_capacity

\* C3 amended: count and (tail - head) are congruent modulo capacity (a full
\* queue has count = capacity and tail = head).
C3_CountCongruentToCursorDistance ==
    maximum_capacity > 0 =>
        current_size % maximum_capacity = (last - first) % maximum_capacity

\* a full capacity-2 queue whose cursors have both moved to slot 1
C3_Witness ==
    /\ maximum_capacity = 2 /\ current_size = 2
    /\ first = 1 /\ last = 1


\* capacity pushes have succeeded and no pop has
FilledNoPop ==
    /\ maximum_capacity >= 1
    /\ Len(pushed) = maximum_capacity /\ Len(popped) = 0

\* C4: for capacity c >= 1, after c successful pushes and no pop, full() is
\* true and size() is c; a timed push that returns in that situation throws the
\* push-timeout error and leaves size at c; the next pop (either variant)
\* hands back the first item pushed and takes size to c - 1.
C4_FullQueueRejectsTimedPush ==
    /\ [](FilledNoPop =>
            /\ full_value /\ size_value = maximum_capacity
            /\ (ev.op = "full" => ev.res = "true")
            /\ (ev.op = "size" => ev.val = maximum_capacity))
    /\ [][FilledNoPop => \A t \in Threads :
            /\ Returns(t, "push_for") =>
                  /\ ev'.res = PushTimeout
                  /\ size_value' = maximum_capacity /\ FilledNoPop'
            /\ Returns(t, "pop") =>
                  /\ ev'.res = "value" /\ ev'.val = pushed[1]
                  /\ size_value' = maximum_capacity - 1
            /\ Returns(t, "pop_for") =>
                  /\ ev'.res = "true" /\ out'[t] = pushed[1]
                  /\ size_value' = maximum_capacity - 1]_vars

\* a timed push has just thrown on a capacity-2 queue holding two items
C4_Witness ==
    /\ FilledNoPop /\ maximum_capacity = 2
    /\ ev.op = "push_for" /\ ev.res = PushTimeout

\* C5: a step that is not the successful return of a push or pop leaves
\* count, head, tail, every slot and the push/pop histories as they were, so a
\* timed call that ends in a timeout has changed none of them, whatever other
\* threads did meanwhile; and from its call to its timeout a timed pop leaves
\* the caller's variable as it was.
C5_TimeoutChangesNothing ==
    [][/\ ~Succeeded(ev') => UNCHANGED <<qvars, hist>>
       /\ \A t \in Threads :
             (pc[t] # "idle" /\ ~(ev'.t = t /\ Succeeded(ev'))) => out'[t] = out[t]]_vars

\* a timed pop has just thrown after other threads pushed and popped an item
C5_Witness ==
    /\ ev.op = "pop_for" /\ ev.res = PopTimeout
    /\ Len(popped) >= 1 /\ current_size = 0 /\ maximum_capacity >= 1

\* C6: on a queue of capacity 0, empty() and full() are both true in every
\* reachable state, nothing is ever enqueued, every timed push that returns
\* throws the push-timeout error and every timed pop that returns throws the
\* pop-timeout error.
C6_ZeroCapacity ==
    maximum_capacity = 0 =>
        /\ empty_value /\ full_value
        /\ pushed = <<>> /\ popped = <<>>
        /\ ev.op = "empty" => ev.res = "true"
        /\ ev.op = "full" => ev.res = "true"
        /\ ev.op = "push_for" => ev.res = PushTimeout
        /\ ev.op = "pop_for" => ev.res = PopTimeout

\* on a capacity-0 queue a timed pop has thrown while another thread is inside
\* a timed push
C6_Witness ==
    /\ maximum_capacity = 0
    /\ ev.op = "pop_for" /\ ev.res = PopTimeout
    /\ \E t \in Threads : op[t] = "push_for" /\ pc[t] = "parked"

\* all producers and consumers have made and finished all their calls
AllDone == \A t \in Producers \cup Consumers : quota[t] = 0 /\ pc[t] = "idle"
Count(q, x) == Cardinality({i \in 1..Len(q) : q[i] = x})
Range(q) == {q[i] : i \in 1..Len(q)}
TotalItems == Cardinality(Producers) * ItemsPerThread

\* C7: with N producers each making M unbounded pushes and N consumers each
\* making M unbounded pops on a queue of capacity >= 1, every fair execution
\* reaches the point where all 2N threads have finished; at that point the
\* queue is empty, N*M pushes and N*M pops have succeeded, and every item was
\* popped as many times as it was pushed (N times each of 0 .. M-1).
C7_ProducersConsumersComplete ==
    /\ <>AllDone
    /\ [](AllDone =>
            /\ current_size = 0 /\ empty_value
            /\ Len(pushed) = TotalItems /\ Len(popped) = TotalItems
            /\ \A x \in Range(pushed) \cup Range(popped) :
                  Count(popped, x) = Count(pushed, x)
            /\ \A j \in 0..(ItemsPerThread - 1) :
                  Count(popped, j) = Cardinality(Producers))

\* all threads have finished on a capacity-1 queue, where producers had to wait
C7_Witness == AllDone /\ maximum_capacity = 1 /\ Len(popped) = TotalItems

\* C8: a timed pop or push never blocks for ever: under fair scheduling every
\* timed call returns or throws; a timed pop that ends while the queue is empty
\* throws the pop-timeout error, one that returns true has dequeued the next
\* pushed item into the caller's variable; a timed push that ends while the
\* queue is full throws the push-timeout error.
C8_TimedCallsTerminate ==
    /\ \A t \in Pair : (op[t] \in TimedOps) ~> (pc[t] = "idle")
    /\ [][\A t \in Pair :
            /\ (Returns(t, "pop_for") /\ current_size = 0) => ev'.res = PopTimeout
            /\ (Returns(t, "pop_for") /\ ev'.res = "true") =>
                  /\ popped' = Append(popped, out'[t])
                  /\ IsPrefix(popped', pushed)
            /\ (Returns(t, "push_for") /\ current_size = maximum_capacity) =>
                  ev'.res = PushTimeout]_vars

\* a timed pop has thrown on a queue into which nothing was ever pushed
C8_Witness ==
    /\ ev.op = "pop_for" /\ ev.res = PopTimeout
    /\ pushed = <<>> /\ maximum_capacity = 2

\* C9: a timed push or timed pop ends in exactly one of two ways: it returns
\* true having enqueued its item (dequeued an item into the caller's variable),
\* or it throws its timeout error having changed nothing; it never returns
\* false.
C9_TimedOutcomes ==
    [][\A t \in Threads :
        /\ Returns(t, "push_for") =>
              \/ /\ ev'.res = "true" /\ ev'.t = t
                 /\ pushed' = Append(pushed, arg[t])
                 /\ current_size' = current_size + 1
                 /\ queue_data' = [queue_data EXCEPT ![last] = arg[t]]
              \/ /\ ev'.res = PushTimeout /\ ev'.t = t
                 /\ UNCHANGED <<qvars, hist>>
        /\ Returns(t, "pop_for") =>
              \/ /\ ev'.res = "true" /\ ev'.t = t
                 /\ popped' = Append(popped, queue_data[first])
                 /\ out'[t] = queue_data[first]
                 /\ current_size' = current_size - 1
              \/ /\ ev'.res = PopTimeout /\ ev'.t = t
                 /\ UNCHANGED <<qvars, hist, out>>]_vars

\* a timed push has returned true while a timed pop is still parked
C9_Witness ==
    /\ ev.op = "push_for" /\ ev.res = "true"
    /\ \E t \in Threads : op[t] = "pop_for" /\ tmo[t] /\ pc[t] = "lock"

\* C10: when exactly one item x is in the queue (it was pushed onto an empty
\* queue and nothing was enqueued or dequeued since), whatever the cursors
\* are, pop() returns x and leaves the queue empty with size 0.
C10_RoundTrip ==
    [][\A t \in Threads :
        (Returns(t, "pop") /\ maximum_capacity >= 1
            /\ Len(pushed) = Len(popped) + 1) =>
              /\ ev'.res = "value" /\ ev'.val = pushed[Len(pushed)]
              /\ empty_value' /\ size_value' = 0]_vars

\* the second round trip on a capacity-2 queue: the item went through slot 1
C10_Witness ==
    /\ maximum_capacity = 2 /\ Len(pushed) = 2 /\ Len(popped) = 2
    /\ first = 0 /\ last = 0 /\ current_size = 0
    /\ ev.op = "pop" /\ ev.val = pushed[2]

\* C11: the mutex has at most one holder, the holder is the only thread in a
\* body, and a parked thread holds no mutex and waits on exactly one condition
\* variable; every step that writes the buffer, count, head or tail, that
\* returns a value read from them, or that parks after evaluating a wait
\* predicate, is taken by the thread that holds the mutex.
C11_AccessOnlyUnderMutex ==
    /\ [](/\ \A t \in Threads : (pc[t] = "held") <=> (mutex_sync = t)
          /\ Cardinality({t \in Threads : pc[t] = "held"}) <= 1
          /\ \A t \in Threads : pc[t] = "parked" =>
                /\ mutex_sync # t
                /\ (t \in is_full) # (t \in is_empty))
    /\ [][/\ (qvars' # qvars \/ ev' # NoEv) =>
               /\ mutex_sync \in Threads
               /\ pc[mutex_sync] = "held" /\ pc'[mutex_sync] = "idle"
               /\ ev'.t = mutex_sync
               /\ mutex_sync' = NoThread
           /\ \A t \in Threads : (pc[t] # "parked" /\ pc'[t] = "parked") =>
               /\ mutex_sync = t /\ pc[t] = "held"
               /\ mutex_sync' = NoThread]_vars

\* one thread is in the body of a pop while the two others wait for the mutex
C11_Witness ==
    /\ \E t \in Threads : pc[t] = "held" /\ op[t] = "pop" /\ current_size > 0
    /\ Cardinality({t \in Threads : pc[t] = "lock"}) = 2

\* C12: unbounded push and pop, size, empty and full never raise an error,
\* for any capacity including 0: push returns, pop returns an item, size a
\* number, empty and full a boolean; no call ever evaluates
\* (index + 1) % capacity with capacity = 0.
C12_NoErrorFromUntimedOperations ==
    /\ ev.res # "fault"
    /\ ev.op = "push" => ev.res = "void"
    /\ ev.op = "pop" => ev.res = "value"
    /\ ev.op = "size" => ev.res = "value" /\ ev.val >= 0
    /\ ev.op \in {"empty", "full"} => ev.res \in {"true", "false"}

\* on a capacity-0 queue full() has returned while an unbounded push and an
\* unbounded pop are parked
C12_Witness ==
    /\ maximum_capacity = 0 /\ ev.op = "full" /\ ev.res = "true"
    /\ \E t \in Threads : op[t] = "push" /\ pc[t] = "parked"
    /\ \E t \in Threads : op[t] = "pop" /\ pc[t] = "parked"

\* a thread inside a call that can take a step by itself
Runnable(t) == pc[t] \in {"lock", "held"}
\* a parked thread whose wait ends when its deadline passes
TimerPending(t) == pc[t] = "parked" /\ op[t] \in TimedOps
\* a parked thread whose wait predicate is true
ParkedThoughReady(t) ==
    /\ pc[t] = "parked"
    /\ \/ op[t] \in PopOps /\ current_size > 0
       \/ op[t] \in PushOps /\ current_size < maximum_capacity

\* C13: no wake-up is missed: whenever a consumer is parked while count > 0,
\* or a producer is parked while count < capacity, some thread inside a call
\* is on its way to the mutex or holds it, or a parked timed call still has
\* its deadline ahead; this for every mix of unbounded and timed callers,
\* also when a notification goes to a waiter that reports a timeout.
C13_NoMissedWakeup ==
    (\E t \in Threads : ParkedThoughReady(t)) =>
        \E u \in Threads : Runnable(u) \/ TimerPending(u)

\* an item is in the queue, an unbounded pop is still parked, and the timed
\* pop that was woken has reported a timeout and heads for the mutex
C13_Witness ==
    /\ current_size > 0
    /\ \E t \in Threads : pc[t] = "parked" /\ op[t] = "pop"
    /\ \E u \in Threads : pc[u] = "lock" /\ op[u] = "pop_for" /\ tmo[u]
    /\ \A v \in Threads : pc[v] \in {"parked", "lock", "idle"}

\* C14: a successful push (either variant) moves exactly one thread parked on
\* is_empty, if there is one, to the mutex and touches no thread parked on
\* is_full; a successful pop does the same with is_full and is_empty swapped;
\* a call that throws its timeout error wakes nobody.  Only pops are parked on
\* is_empty and only pushes on is_full.
C14_NotifyExactlyOne ==
    /\ [](/\ \A t \in is_empty : pc[t] = "parked" /\ op[t] \in PopOps
          /\ \A t \in is_full : pc[t] = "parked" /\ op[t] \in PushOps)
    /\ [][\A t \in Threads :
          /\ (ev'.t = t /\ ev'.op \in PushOps /\ Succeeded(ev')) =>
                /\ is_full' = is_full
                /\ IF is_empty = {} THEN is_empty' = {}
                   ELSE \E w \in is_empty :
                          is_empty' = is_empty \ {w} /\ pc'[w] = "lock"
                /\ \A u \in Threads \ {t} : pc'[u] # pc[u] => u \in is_empty
          /\ (ev'.t = t /\ ev'.op \in PopOps /\ Succeeded(ev')) =>
                /\ is_empty' = is_empty
                /\ IF is_full = {} THEN is_full' = {}
                   ELSE \E w \in is_full :
                          is_full' = is_full \ {w} /\ pc'[w] = "lock"
                /\ \A u \in Threads \ {t} : pc'[u] # pc[u] => u \in is_full
          /\ (ev'.t = t /\ ev'.res \in {PushTimeout, PopTimeout}) =>
                /\ is_full' = is_full /\ is_empty' = is_empty
                /\ \A u \in Threads \ {t} : pc'[u] = pc[u]]_vars

\* a push has just returned with two pops parked before it: one of them was
\* moved to the mutex, the other is still parked
C14_Witness ==
    /\ ev.op = "push" /\ ev.res = "void"
    /\ Cardinality(is_empty) = 1
    /\ \E w \in Threads : pc[w] = "lock" /\ op[w] \in PopOps /\ ~tmo[w]
    /\ current_size = 1

\* the slots that hold an element written by a push and not popped since
LiveSlots == {i \in DOMAIN life : life[i] = "live"}
\* the current_size slots starting at first, wrapping
Window == IF maximum_capacity = 0 THEN {}
          ELSE {(first + k) % maximum_capacity : k \in 0..(current_size - 1)}

\* C15: in every state the live slots are exactly the count slots starting at
\* head, wrapping; a successful pop reads slot head, which is live, returns
\* its content and leaves it dead; a successful push writes its item to slot
\* tail, which is not live, and changes no other slot.
C15_LiveSlotsAreTheWindow ==
    /\ [](LiveSlots = Window /\ Cardinality(LiveSlots) = current_size)
    /\ [][\A t \in Threads :
          /\ (ev'.t = t /\ ev'.op \in PopOps /\ Succeeded(ev')) =>
                /\ first \in LiveSlots
                /\ life' = [life EXCEPT ![first] = "dead"]
                /\ popped' = Append(popped, queue_data[first])
                /\ queue_data' = queue_data
          /\ (ev'.t = t /\ ev'.op \in PushOps /\ Succeeded(ev')) =>
                /\ last \in DOMAIN life /\ last \notin LiveSlots
                /\ life' = [life EXCEPT ![last] = "live"]
                /\ queue_data' = [queue_data EXCEPT ![last] = arg[t]]]_vars

\* a push has just reused slot 0 of a capacity-2 queue after its element was
\* popped, while slot 1 is still live: the window wraps
C15_Witness ==
    /\ maximum_capacity = 2 /\ first = 1 /\ last = 1 /\ current_size = 2
    /\ Len(popped) = 1 /\ ev.op \in PushOps /\ Succeeded(ev)
    /\ queue_data[0] # queue_data[1]

\* thread t, in a timed call with a timeout <= 0, runs the body of o
ZeroBody(t, o) == zero[t] /\ Body(t, o)

\* C16 as stated: a timed push with a timeout <= 0 never parks: its body
\* evaluates count < capacity once and ends the call there, with true and the
\* item enqueued if the queue had room, with the push-timeout error otherwise;
\* a timed pop likewise with count > 0 and the pop-timeout error.
C16_ZeroTimeoutChecksOnce ==
    [][\A t \in Pair :
        /\ ZeroBody(t, "push_for") =>
              /\ pc'[t] = "idle" /\ ~tmo[t]
              /\ ev'.res = (IF NotFull THEN "true" ELSE PushTimeout)
        /\ ZeroBody(t, "pop_for") =>
              /\ pc'[t] = "idle" /\ ~tmo[t]
              /\ ev'.res = (IF NotEmpty THEN "true" ELSE PopTimeout)]_vars

\* C16 amended: a timed push with a timeout <= 0 evaluates count < capacity
\* under the mutex and enqueues and returns true if it holds; otherwise it
\* gives up the mutex once in wait_for, whose deadline has already passed, so
\* that whatever ends the wait (the deadline, a notification, a spurious
\* wake-up) reports a timeout; having the mutex again it evaluates the
\* predicate a second and last time, enqueues and returns true if it holds
\* now, and throws the push-timeout error otherwise.  A timed pop likewise.
C16_ZeroTimeoutChecksTwice ==
    [][\A t \in Pair :
        /\ (ZeroBody(t, "push_for") /\ ~tmo[t]) =>
              IF NotFull THEN pc'[t] = "idle" /\ ev'.res = "true"
              ELSE pc'[t] = "parked" /\ current_size' = current_size
        /\ (ZeroBody(t, "push_for") /\ tmo[t]) =>
              /\ pc'[t] = "idle"
              /\ ev'.res = (IF NotFull THEN "true" ELSE PushTimeout)
        /\ (ZeroBody(t, "pop_for") /\ ~tmo[t]) =>
              IF NotEmpty THEN pc'[t] = "idle" /\ ev'.res = "true"
              ELSE pc'[t] = "parked" /\ current_size' = current_size
        /\ (ZeroBody(t, "pop_for") /\ tmo[t]) =>
              /\ pc'[t] = "idle"
              /\ ev'.res = (IF NotEmpty THEN "true" ELSE PopTimeout)
        /\ (zero[t] /\ pc[t] = "parked" /\ pc'[t] # "parked") =>
              pc'[t] = "lock" /\ tmo'[t]
        /\ (zero[t] /\ pc[t] = "parked") => ENABLED Timeout(t)]_vars

\* a push with timeout 0 found the queue full, gave up the mutex, and holds it
\* again after a pop made room: its second evaluation will succeed
C16_Witness ==
    \E t \in Pair :
        /\ zero[t] /\ op[t] = "push_for" /\ pc[t] = "held" /\ tmo[t]
        /\ maximum_capacity = 1 /\ current_size = 0 /\ Len(popped) = 1

\* C17: on a queue of capacity 0 no unbounded push and no unbounded pop ever
\* returns or throws: a thread that has entered one stays inside it in every
\* step of every execution, and no step changes the buffer, the count, the
\* cursors or the histories of pushed and popped items.
C17_ZeroCapacityBlocksForever ==
    /\ [](maximum_capacity = 0 => ev.op \notin {"push", "pop"})
    /\ [][maximum_capacity = 0 =>
            /\ UNCHANGED <<qvars, hist>>
            /\ \A t \in Threads : (op[t] \in {"push", "pop"}) =>
                  /\ op'[t] = op[t]
                  /\ pc'[t] \in {"lock", "held", "parked"}
                  /\ (Body(t, op[t]) => pc'[t] = "parked")]_vars

\* capacity 0: an unbounded push that was woken spuriously holds the mutex
\* again while another unbounded push and an unbounded pop are parked
C17_Witness ==
    /\ maximum_capacity = 0
    /\ \E t \in Threads : op[t] = "push" /\ pc[t] = "parked"
    /\ \E t \in Threads : op[t] = "pop" /\ pc[t] = "parked"
    /\ \E t \in Threads : op[t] = "push" /\ pc[t] = "held"

\* C19: in every state size() is the number of completed pushes minus the
\* number of completed pops (0 after construction, one more after every
\* push, one less after every pop), a size() call returns that number, and a
\* call that ends with a timeout error does not change it.
C19_SizeIsPushesMinusPops ==
    /\ [](/\ size_value = Len(pushed) - Len(popped)
          /\ ev.op = "size" => ev.val = Len(pushed) - Len(popped))
    /\ [][/\ ev'.res \in {PushTimeout, PopTimeout} => size_value' = size_value
          /\ (ev'.op \in PushOps /\ Succeeded(ev')) => size_value' = size_value + 1
          /\ (ev'.op \in PopOps /\ Succeeded(ev')) => size_value' = size_value - 1]_vars

\* size() returns 1 after three pushes and two pops
C19_Witness ==
    /\ ev.op = "size" /\ ev.val = 1
    /\ Len(pushed) = 3 /\ Len(popped) = 2

\* both threads of the stress test have run to their end
StressFinished ==
    /\ done /\ quota[StressProducer] = 0 /\ quota[StressConsumer] = 0
    /\ pc[StressProducer] = "idle" /\ pc[StressConsumer] = "idle"
\* the queue is empty and exactly the MaxPush pushed items were popped
StressOutcome ==
    /\ current_size = 0
    /\ Len(pushed) = MaxPush /\ Len(popped) = MaxPush
    /\ popped = pushed

\* C18 as stated: whatever the capacity, every fair execution of the stress
\* test ends both threads, and then the queue is empty and exactly K items
\* were popped.
C18_StressTerminates ==
    /\ <>StressFinished
    /\ [](StressFinished => StressOutcome)

\* C18 amended: on a queue of capacity >= 1 every fair execution of the stress
\* test ends both threads; whenever both threads have ended (any capacity) the
\* queue is empty and exactly K items were popped, in the order pushed.
C18_StressTerminatesWithRoom ==
    /\ <>(maximum_capacity = 0 \/ StressFinished)
    /\ [](StressFinished => StressOutcome)

\* both threads have ended on a queue of capacity 1, the consumer having left
\* its loop on empty() = true
C18_Witness ==
    /\ StressFinished /\ maximum_capacity = 1
    /\ Len(popped) = MaxPush /\ popped[MaxPush] = MaxPush - 1

\* the condition variables of queue.h under the names of enqueue.cpp
CvOfH(n) == CASE n = "not_full" -> "is_full"
              [] n = "not_empty" -> "is_empty"
              [] OTHER -> n

\* count, head, tail and capacity agree in the three copies, and so does the
\* content of every slot a push has written
SameState ==
    /\ queue_cpp.maximum_capacity = maximum_capacity
    /\ queue_cpp.enqueue_element = current_size
    /\ queue_cpp.first = first /\ queue_cpp.last = last
    /\ queue_h.capacity = maximum_capacity
    /\ queue_h.count = current_size
    /\ queue_h.front = first /\ queue_h.rear = last
    /\ \A i \in DOMAIN life : life[i] # "raw" =>
          /\ queue_cpp.queue_size[i] = queue_data[i]
          /\ queue_h.buffer[i] = queue_data[i]

\* the outcome o of a copy's call is what the step of thread t did in
\* enqueue.cpp: same return or throw, same value handed to the caller, same
\* condition variable waited on, same notification
SameOutcome(t, o) ==
    /\ o.res = ev'.res
    /\ o.val = (IF op[t] = "pop_for" /\ ev'.res = "true" THEN out'[t] ELSE ev'.val)
    /\ o.wait = (IF t \in is_full' THEN "is_full"
                 ELSE IF t \in is_empty' THEN "is_empty" ELSE "none")
    /\ o.notify = (IF ev'.op \in PushOps /\ Succeeded(ev') THEN "is_empty"
                   ELSE IF ev'.op \in PopOps /\ Succeeded(ev') THEN "is_full"
                   ELSE "none")
    /\ (is_empty \ is_empty' # {}) => o.notify = "is_empty"
    /\ (is_full \ is_full' # {}) => o.notify = "is_full"

\* C20: the three copies, given the same calls, scheduling and timer events,
\* stay in states with equal capacity, count, head, tail and written slots,
\* and every call returns the same value, throws the same error, waits on the
\* same condition variable and notifies the same one in all three.
C20_CopiesEquivalent ==
    /\ []SameState
    /\ [][\A t \in Threads : (pc[t] = "held" /\ pc'[t] # "held") =>
          LET c == cpp_call(queue_cpp, op[t], arg[t], tmo[t])
              h == h_call(queue_h, op[t], arg[t], tmo[t])
          IN  /\ SameOutcome(t, c)
              /\ SameOutcome(t, [h EXCEPT !.wait = CvOfH(@), !.notify = CvOfH(@)])]_vars

\* C21: with capacity > 0, in every state tail = (head + count) mod capacity;
\* head = tail exactly when count is 0 or count = capacity; and empty() and
\* full() are not both true.
C21_TailIsHeadPlusCount ==
    maximum_capacity > 0 =>
        /\ last = (first + current_size) % maximum_capacity
        /\ (first = last) <=> (current_size = 0 \/ current_size = maximum_capacity)
        /\ ~(empty_value /\ full_value)

\* a capacity-2 queue holding one element in slot 1, the tail wrapped to 0,
\* on which empty() has just returned false
C21_Witness ==
    /\ maximum_capacity = 2 /\ first = 1 /\ last = 0 /\ current_size = 1
    /\ ev.op = "empty" /\ ev.res = "false"

\* C22: a timeout error is thrown only by the thread that holds the mutex, in
\* a timed call whose wait reported a timeout, and in a state where the wait
\* predicate is false: count = capacity for the push-timeout error, count = 0
\* for the pop-timeout error.  A timed call whose wait reported a timeout and
\* that finds the predicate true when it holds the mutex again succeeds.
C22_TimeoutDecidedUnderLock ==
    [][\A t \in Threads :
        /\ (ev'.t = t /\ ev'.res = PushTimeout) =>
              /\ mutex_sync = t /\ pc[t] = "held" /\ op[t] = "push_for"
              /\ tmo[t] /\ current_size = maximum_capacity
        /\ (ev'.t = t /\ ev'.res = PopTimeout) =>
              /\ mutex_sync = t /\ pc[t] = "held" /\ op[t] = "pop_for"
              /\ tmo[t] /\ current_size = 0
        /\ (Body(t, "push_for") /\ tmo[t] /\ current_size < maximum_capacity) =>
              /\ ev'.t = t /\ ev'.res = "true"
              /\ pushed' = Append(pushed, arg[t])
        /\ (Body(t, "pop_for") /\ tmo[t] /\ current_size > 0) =>
              /\ ev'.t = t /\ ev'.res = "true"
              /\ out'[t] = queue_data[first]]_vars

\* a timed push has just thrown its timeout error on a full capacity-1 queue
\* while a timed pop whose wait reported a timeout is on its way to the
\* mutex: it will find count > 0 and succeed
C22_Witness ==
    /\ maximum_capacity = 1 /\ current_size = 1
    /\ ev.op = "push_for" /\ ev.res = PushTimeout
    /\ \E u \in Threads : pc[u] = "lock" /\ op[u] = "pop_for" /\ tmo[u]
====
